---- MODULE Spec2Model ----
(***************************************************************************)
(* Model of xalloc (src/mem.h, src/mem.c): three allocation strategies     *)
(* behind one {alloc, free, realloc} interface.                            *)
(*   BasicAllocator  = { malloc, free, realloc }                           *)
(*   SafeAllocator   = { xalloc, xfree, xrealloc }                         *)
(*   DebugAllocator  = { debugAlloc, debugFree, debugRealloc }             *)
(* The debug strategy keeps an intrusive doubly-linked list of             *)
(* DebugHeader records (dbgHead) and two counters.                         *)
(*                                                                         *)
(* A block is identified by its address in Addr; the user pointer of a     *)
(* debug block (dh + 1) and its header (dh) are identified by the same     *)
(* address.  Sizes are size_t values, kept modulo Modulus.                 *)
(***************************************************************************)
EXTENDS Integers, Sequences, FiniteSets, TLC

\* ---- bounds of the model ----
NumAddr == 4
MaxSize == 2
MaxAllocs == 3
WordBits == 5
MaxOther == 1
MaxMixedAllocs == 1
MaxStrLen == 1

\* ---- program constants ----
NULL == 0
HdrSize == 4

Modulus == 2 ^ WordBits
Addr == 1..NumAddr
Ptr == {NULL} \cup Addr
Sizes == {0, 1, MaxSize}

\* arguments of xstrdup: a NULL pointer, or a string that is empty or
\* MaxStrLen characters long
Chars == {"a"}
Strings == {<<>>} \cup [1..MaxStrLen -> Chars]
StrArgs == {[null |-> TRUE, chars |-> <<>>]}
           \cup {[null |-> FALSE, chars |-> c] : c \in Strings}

\* a DebugHeader; NoRec is the content of memory that holds no header
NoRec == [size |-> 0, allocNumber |-> 0, next |-> NULL, prev |-> NULL]

VARIABLES
    dbgHead,          \* static DebugHeader *dbgHead
    debugBytesAlive,  \* static size_t debugBytesAlive
    debugAllocCount,  \* static size_t debugAllocCount
    mem,              \* heap: address -> DebugHeader stored there (or NoRec)
    owner,            \* address -> strategy whose caller holds the block
    status,           \* "running", "panicked" (exit(1)), "crashed", "undefined"
    issued,           \* allocNumbers handed out so far, in order
    out,              \* lines the most recent call wrote to stderr
    req,              \* bytes the most recent call asked malloc/realloc for
    lastCall          \* the most recent interface call and its result

vars == <<dbgHead, debugBytesAlive, debugAllocCount, mem, owner, status,
          issued, out, req, lastCall>>

\* the program state at the entry of a call, as one value threaded through
\* the functions below; out and req start empty for each call
S == [dbgHead |-> dbgHead, debugBytesAlive |-> debugBytesAlive,
      debugAllocCount |-> debugAllocCount, mem |-> mem, owner |-> owner,
      status |-> status, issued |-> issued, out |-> <<>>, req |-> 0]

Res(s, ret, sys) == [s |-> s, ret |-> ret, sys |-> sys]

FreeAddrs(s) == {a \in Addr : s.owner[a] = "free"}

IsRec(m, a) == a \in Addr /\ m[a] # NoRec

\* stores through a DebugHeader pointer; a store outside any tracked header
\* changes nothing the model tracks
SetNext(m, a, v) == IF IsRec(m, a) THEN [m EXCEPT ![a].next = v] ELSE m

SetPrev(m, a, v) == IF IsRec(m, a) THEN [m EXCEPT ![a].prev = v] ELSE m

\* ---- the underlying system allocator ----
\* malloc(n): NULL (failure, or n = 0) or any unused address
MallocResults(s, n) == {NULL} \cup FreeAddrs(s)

\* realloc(p, n): NULL, the same address, or any unused address
ReallocResults(s, p, n) ==
    {NULL} \cup FreeAddrs(s) \cup (IF p = NULL THEN {} ELSE {p})

sysMalloc(s, n, r, kind) ==
    IF r = NULL THEN [s EXCEPT !.req = n]
    ELSE [s EXCEPT !.owner[r] = kind, !.req = n]

sysFree(s, p) ==
    IF p = NULL THEN s
    ELSE [s EXCEPT !.owner[p] = "free", !.mem[p] = NoRec]

\* realloc(p, n) returning r: contents move with the block; p is released
\* when the block moved, and when n = 0 yields NULL
sysRealloc(s, p, n, r, kind) ==
    IF p = NULL THEN sysMalloc(s, n, r, kind)
    ELSE IF r = NULL
         THEN [(IF n = 0 THEN sysFree(s, p) ELSE s) EXCEPT !.req = n]
    ELSE IF r = p THEN [s EXCEPT !.req = n]
    ELSE [s EXCEPT !.owner[p] = "free", !.owner[r] = kind,
                   !.mem[r] = s.mem[p], !.mem[p] = NoRec, !.req = n]

\* ---- mem.c ----
\* mem.h: fprintf(stderr, "panic in %s:%d: %s\n", __FILE__, __LINE__, msg)
PanicLine(file, line, msg) ==
    "panic in " \o file \o ":" \o ToString(line) \o ": " \o msg

panic(s) ==
    [s EXCEPT !.status = "panicked",
              !.out = Append(s.out, PanicLine("mem.c", 37, "out of memory"))]

\* a checkPtr that reports nothing and returns
checkPtr_noExit(s, ptr) == s

checkPtr(s, ptr) == IF ptr = NULL THEN panic(s) ELSE s

\* xalloc without its "if (!sz) return NULL"
xalloc_noZeroCheck(s, sz, r) ==
    Res(checkPtr(sysMalloc(s, sz, r, "safe"), r), r, {"malloc"})

xalloc(s, sz, r) ==
    IF sz = 0 THEN Res(s, NULL, {})
    ELSE Res(checkPtr(sysMalloc(s, sz, r, "safe"), r), r, {"malloc"})

xrealloc(s, ptr, sz, r) ==
    Res(checkPtr(sysRealloc(s, ptr, sz, r, "safe"), r), r, {"realloc"})

\* an unlink that forgets "else dbgHead = h->next"
Unlink_keepHead(s, hd) ==
    LET m1 == IF hd.prev # NULL THEN SetNext(s.mem, hd.prev, hd.next)
              ELSE s.mem
        m2 == IF hd.next # NULL THEN SetPrev(m1, hd.next, hd.prev) ELSE m1
    IN [s EXCEPT !.mem = m2,
                 !.debugBytesAlive = (s.debugBytesAlive - hd.size) % Modulus]

\* unlink a header whose fields read as hd, and discount its size
Unlink(s, hd) ==
    LET m1 == IF hd.prev # NULL THEN SetNext(s.mem, hd.prev, hd.next)
              ELSE s.mem
        head1 == IF hd.prev # NULL THEN s.dbgHead ELSE hd.next
        m2 == IF hd.next # NULL THEN SetPrev(m1, hd.next, hd.prev) ELSE m1
    IN [s EXCEPT !.mem = m2, !.dbgHead = head1,
                 !.debugBytesAlive = (s.debugBytesAlive - hd.size) % Modulus]

\* xfree without its "if (!ptr) return"
xfree_noNullCheck(s, ptr, hd, crash) ==
    IF crash THEN Res([s EXCEPT !.status = "crashed"], NULL, {})
    ELSE Res([sysFree(Unlink(s, hd), ptr) EXCEPT !.status = "undefined"],
             NULL, {"free"})

\* xfree reads a DebugHeader in front of a block that has none: the fields
\* it reads (hd) are whatever lies there, its stores go through them, and
\* free(h) is handed an address malloc never returned.  The process either
\* crashes on the way or goes on in the state the stores left; having run
\* undefined behaviour, it is not followed further ("undefined").
xfree(s, ptr, hd, crash) ==
    IF ptr = NULL THEN Res(s, NULL, {})
    ELSE IF crash THEN Res([s EXCEPT !.status = "crashed"], NULL, {})
    ELSE Res([sysFree(Unlink(s, hd), ptr) EXCEPT !.status = "undefined"],
             NULL, {"free"})

\* storing a DebugHeader at the start of a block of n bytes runs past the
\* end of the block when n < sizeof(DebugHeader)
HeaderStore(s, n) ==
    IF n < HdrSize THEN [s EXCEPT !.status = "undefined"] ELSE s

\* a debugAlloc that links the new record behind the head instead of
\* in front of it
debugAllocNonZero_insertAfterHead(s, sz, r) ==
    LET dh == r
        s0 == checkPtr(sysMalloc(s, (HdrSize + sz) % Modulus, r, "debug"), dh)
        count == (s.debugAllocCount + 1) % Modulus
        h == s.dbgHead
        after == IF h = NULL THEN NULL ELSE s.mem[h].next
        m1 == [s0.mem EXCEPT ![dh] = [size |-> sz, allocNumber |-> count,
                                      next |-> after, prev |-> h]]
        m2 == IF h # NULL THEN SetPrev(SetNext(m1, h, dh), after, dh) ELSE m1
    IN IF dh = NULL THEN Res(s0, NULL, {"malloc"})
       ELSE Res(HeaderStore(
                    [s0 EXCEPT !.debugAllocCount = count,
                               !.mem = m2,
                               !.dbgHead = IF h = NULL THEN dh ELSE h,
                               !.debugBytesAlive =
                                    (s.debugBytesAlive + sz) % Modulus,
                               !.issued = Append(s.issued, count)],
                    s0.req),
                dh, {"malloc"})

debugAllocNonZero(s, sz, r) ==
    LET dh == r
        s0 == checkPtr(sysMalloc(s, (HdrSize + sz) % Modulus, r, "debug"), dh)
        count == (s.debugAllocCount + 1) % Modulus
        m1 == [s0.mem EXCEPT ![dh] = [size |-> sz, allocNumber |-> count,
                                      next |-> s.dbgHead, prev |-> NULL]]
        m2 == IF s.dbgHead # NULL THEN SetPrev(m1, s.dbgHead, dh) ELSE m1
    IN IF dh = NULL THEN Res(s0, NULL, {"malloc"})
       ELSE Res(HeaderStore(
                    [s0 EXCEPT !.debugAllocCount = count,
                               !.mem = m2,
                               !.dbgHead = dh,
                               !.debugBytesAlive =
                                    (s.debugBytesAlive + sz) % Modulus,
                               !.issued = Append(s.issued, count)],
                    s0.req),
                dh, {"malloc"})

\* debugAlloc without its "if (!sz) return NULL"
debugAlloc_noZeroCheck(s, sz, r) == debugAllocNonZero(s, sz, r)

debugAlloc(s, sz, r) ==
    IF sz = 0 THEN Res(s, NULL, {}) ELSE debugAllocNonZero(s, sz, r)

\* a debugFree that gives the allocation number back
debugFree_decCount(s, ptr) ==
    IF ptr = NULL THEN s
    ELSE [sysFree(Unlink(s, s.mem[ptr]), ptr) EXCEPT
             !.debugAllocCount = (s.debugAllocCount - 1) % Modulus]

debugFree(s, ptr) ==
    IF ptr = NULL THEN s
    ELSE sysFree(Unlink(s, s.mem[ptr]), ptr)

\* a repair that forgets "if (new->next) new->next->prev = new"
RepairLinks_noNextFix(s, new, old) ==
    IF new = old THEN s
    ELSE LET h == s.mem[new]
             m1 == IF h.prev # NULL THEN SetNext(s.mem, h.prev, new)
                   ELSE s.mem
             head1 == IF h.prev # NULL THEN s.dbgHead ELSE new
         IN [s EXCEPT !.mem = m1, !.dbgHead = head1]

\* lines 107-112: the block moved from old to new
RepairLinks(s, new, old) ==
    IF new = old THEN s
    ELSE LET h == s.mem[new]
             m1 == IF h.prev # NULL THEN SetNext(s.mem, h.prev, new)
                   ELSE s.mem
             head1 == IF h.prev # NULL THEN s.dbgHead ELSE new
             m2 == IF h.next # NULL THEN SetPrev(m1, h.next, new) ELSE m1
         IN [s EXCEPT !.mem = m2, !.dbgHead = head1]

\* an adjustment that forgets "debugBytesAlive -= oldSize"
AdjustBytes_noSub(bytes, oldSize, sz) == (bytes + sz) % Modulus

\* lines 116-117
AdjustBytes(bytes, oldSize, sz) ==
    (((bytes - oldSize) % Modulus) + sz) % Modulus

\* a debugRealloc that forgets "new->size = sz"
debugReallocResize_noSize(s, ptr, sz, r) ==
    LET old == ptr
        oldSize == s.mem[old].size
        new == r
        s0 == checkPtr(sysRealloc(s, old, (HdrSize + sz) % Modulus, new,
                                  "debug"), new)
        s1 == RepairLinks(s0, new, old)
    IN IF new = NULL THEN Res(s0, NULL, {"realloc"})
       ELSE Res(HeaderStore(
                    [s1 EXCEPT !.debugBytesAlive =
                                    AdjustBytes(s.debugBytesAlive, oldSize,
                                                sz)],
                    s0.req),
                new, {"realloc"})

debugReallocResize(s, ptr, sz, r) ==
    LET old == ptr
        oldSize == s.mem[old].size
        new == r
        s0 == checkPtr(sysRealloc(s, old, (HdrSize + sz) % Modulus, new,
                                  "debug"), new)
        s1 == RepairLinks(s0, new, old)
    IN IF new = NULL THEN Res(s0, NULL, {"realloc"})
       ELSE Res(HeaderStore(
                    [s1 EXCEPT !.mem[new].size = sz,
                               !.debugBytesAlive =
                                    AdjustBytes(s.debugBytesAlive, oldSize,
                                                sz)],
                    s0.req),
                new, {"realloc"})

\* debugRealloc without its "if (sz == 0)" branch
debugRealloc_noZeroBranch(s, ptr, sz, r) ==
    IF ptr = NULL THEN debugAlloc(s, sz, r)
    ELSE debugReallocResize(s, ptr, sz, r)

\* debugRealloc that returns NULL for a NULL pointer instead of allocating
debugRealloc_nullNoAlloc(s, ptr, sz, r) ==
    IF ptr = NULL THEN Res(s, NULL, {})
    ELSE IF sz = 0 THEN Res(debugFree(s, ptr), NULL, {"free"})
    ELSE debugReallocResize(s, ptr, sz, r)

debugRealloc(s, ptr, sz, r) ==
    IF ptr = NULL THEN debugAlloc(s, sz, r)
    ELSE IF sz = 0 THEN Res(debugFree(s, ptr), NULL, {"free"})
    ELSE debugReallocResize(s, ptr, sz, r)

\* ---- BasicAllocator: the system allocator itself ----
basicAlloc(s, sz, r) == Res(sysMalloc(s, sz, r, "basic"), r, {"malloc"})

basicFree(s, ptr) == Res(sysFree(s, ptr), NULL, {"free"})

basicRealloc(s, ptr, sz, r) ==
    Res(sysRealloc(s, ptr, sz, r, "basic"), r, {"realloc"})

\* ---- debugReportLeaks ----
LeakLine(allocNumber, size) ==
    "Leak: allocation " \o ToString(allocNumber) \o " leaked "
        \o ToString(size) \o " bytes "

TotalLine(bytes) == "Total leaked: " \o ToString(bytes) \o " bytes"

\* the headers the loop "while (h) { ...; h = h->next; }" visits, in order
RECURSIVE Walk(_, _, _)
Walk(m, h, fuel) ==
    IF h = NULL \/ fuel = 0 THEN <<>>
    ELSE IF ~IsRec(m, h) THEN <<h>>
    ELSE <<h>> \o Walk(m, m[h].next, fuel - 1)

\* a report without its "if (!h)" early return
debugReportLeaks_noEmptyCase(s) ==
    LET w == Walk(s.mem, s.dbgHead, NumAddr + 1)
        lines == [i \in 1..Len(w) |->
                    LeakLine(s.mem[w[i]].allocNumber, s.mem[w[i]].size)]
    IN Res([s EXCEPT !.out = <<"MEMORY LEAKS DETECTED:">> \o lines
                                \o <<TotalLine(s.debugBytesAlive)>>],
           NULL, {})

\* a report that walks the list with dbgHead itself as its cursor
debugReportLeaks_consume(s) ==
    LET w == Walk(s.mem, s.dbgHead, NumAddr + 1)
        lines == [i \in 1..Len(w) |->
                    LeakLine(s.mem[w[i]].allocNumber, s.mem[w[i]].size)]
    IN IF s.dbgHead = NULL
       THEN Res([s EXCEPT !.out = <<"No memory leaks detected.">>], NULL, {})
       ELSE Res([s EXCEPT !.out = <<"MEMORY LEAKS DETECTED:">> \o lines
                                  \o <<TotalLine(s.debugBytesAlive)>>,
                          !.dbgHead = NULL],
                NULL, {})

debugReportLeaks(s) ==
    LET w == Walk(s.mem, s.dbgHead, NumAddr + 1)
        lines == [i \in 1..Len(w) |->
                    LeakLine(s.mem[w[i]].allocNumber, s.mem[w[i]].size)]
    IN IF s.dbgHead = NULL
       THEN Res([s EXCEPT !.out = <<"No memory leaks detected.">>], NULL, {})
       ELSE Res([s EXCEPT !.out = <<"MEMORY LEAKS DETECTED:">> \o lines
                                  \o <<TotalLine(s.debugBytesAlive)>>],
                NULL, {})

\* ---- xstrdup ----
\* the alloc member of an IAllocator
AllocOf(via, s, sz, r) ==
    CASE via = "basic" -> basicAlloc(s, sz, r)
      [] via = "safe" -> xalloc(s, sz, r)
      [] via = "debug" -> debugAlloc(s, sz, r)

\* an xstrdup that allocates strlen(s) bytes, without room for the terminator
xstrdup_noTerminator(s, via, str, r, crash) ==
    IF str.null THEN Res(s, NULL, {})
    ELSE LET len == Len(str.chars)
             a == AllocOf(via, s, len % Modulus, r)
         IN IF a.s.status # "running" THEN a
            ELSE IF a.ret = NULL
            THEN Res([a.s EXCEPT !.status = IF crash THEN "crashed"
                                            ELSE "undefined"],
                     NULL, a.sys)
            ELSE a

\* str is the argument s: str.null for a NULL pointer, else str.chars are
\* the characters in front of the terminator.  The bytes copied into the
\* payload are not tracked; a store through a NULL dup is undefined
\* behaviour (crash tells whether the process dies of it at once).
xstrdup(s, via, str, r, crash) ==
    IF str.null THEN Res(s, NULL, {})
    ELSE LET len == Len(str.chars)
             a == AllocOf(via, s, (len + 1) % Modulus, r)
         IN IF a.s.status # "running" THEN a
            ELSE IF a.ret = NULL
            THEN Res([a.s EXCEPT !.status = IF crash THEN "crashed"
                                            ELSE "undefined"],
                     NULL, a.sys)
            ELSE a

\* ---- state machine ----
NoCall == [op |-> "none", ptr |-> NULL, sz |-> 0, ret |-> NULL, sys |-> {}]

Init ==
    /\ dbgHead = NULL
    /\ debugBytesAlive = 0
    /\ debugAllocCount = 0
    /\ mem = [a \in Addr |-> NoRec]
    /\ owner = [a \in Addr |-> "free"]
    /\ status = "running"
    /\ issued = <<>>
    /\ out = <<>>
    /\ req = 0
    /\ lastCall = NoCall

Apply(res, op, ptr, sz) ==
    /\ dbgHead' = res.s.dbgHead
    /\ debugBytesAlive' = res.s.debugBytesAlive
    /\ debugAllocCount' = res.s.debugAllocCount
    /\ mem' = res.s.mem
    /\ owner' = res.s.owner
    /\ status' = res.s.status
    /\ issued' = res.s.issued
    /\ out' = res.s.out
    /\ req' = res.s.req
    /\ lastCall' = [op |-> op, ptr |-> ptr, sz |-> sz,
                    ret |-> res.ret, sys |-> res.sys]

Live(kind) == {a \in Addr : owner[a] = kind}

DebugAllocStep(cap) ==
    /\ status = "running"
    /\ \E sz \in Sizes :
       \E r \in MallocResults(S, (HdrSize + sz) % Modulus) :
          /\ sz = 0 \/ debugAllocCount < cap
          /\ Apply(debugAlloc(S, sz, r), "debugAlloc", NULL, sz)

DebugAllocCall == DebugAllocStep(MaxAllocs)

DebugFreeCall ==
    /\ status = "running"
    /\ \E ptr \in {NULL} \cup Live("debug") :
          Apply(Res(debugFree(S, ptr), NULL,
                    IF ptr = NULL THEN {} ELSE {"free"}),
                "debugFree", ptr, 0)

DebugReallocStep(cap) ==
    /\ status = "running"
    /\ \E ptr \in {NULL} \cup Live("debug") : \E sz \in Sizes :
       \E r \in (IF sz = 0 THEN {NULL}
                ELSE ReallocResults(S, ptr, (HdrSize + sz) % Modulus)) :
          /\ ptr # NULL \/ sz = 0 \/ debugAllocCount < cap
          /\ Apply(debugRealloc(S, ptr, sz, r), "debugRealloc", ptr, sz)

DebugReallocCall == DebugReallocStep(MaxAllocs)

DebugReportCall ==
    /\ status = "running"
    /\ Apply(debugReportLeaks(S), "debugReportLeaks", NULL, 0)

ApplyStrdup(res, via, str) ==
    /\ dbgHead' = res.s.dbgHead
    /\ debugBytesAlive' = res.s.debugBytesAlive
    /\ debugAllocCount' = res.s.debugAllocCount
    /\ mem' = res.s.mem
    /\ owner' = res.s.owner
    /\ status' = res.s.status
    /\ issued' = res.s.issued
    /\ out' = res.s.out
    /\ req' = res.s.req
    /\ lastCall' = [op |-> "xstrdup", ptr |-> NULL, sz |-> Len(str.chars),
                    ret |-> res.ret, sys |-> res.sys, via |-> via,
                    str |-> str]

\* xstrdup(DebugAllocator, s)
DebugStrdupCall ==
    /\ status = "running"
    /\ \E str \in StrArgs :
       \E r \in (IF str.null THEN {NULL}
                ELSE MallocResults(S, (HdrSize + Len(str.chars) + 1)
                                          % Modulus)) :
          /\ str.null \/ debugAllocCount < MaxAllocs
          /\ ApplyStrdup(xstrdup(S, "debug", str, r, FALSE), "debug", str)

NextDebug ==
    \/ DebugAllocCall \/ DebugFreeCall \/ DebugReallocCall
    \/ DebugReportCall \/ DebugStrdupCall

SpecDebug == Init /\ [][NextDebug]_vars

\* what a DebugHeader read in front of a block without one may hold: any
\* size, and links that are NULL, the address of a tracked header, or some
\* other address (Wild stands for every address that holds no header)
Wild == NumAddr + 1

GarbagePtrs == {NULL, Wild} \cup {a \in Addr : IsRec(mem, a)}

GarbageHeaders ==
    [size : {0, MaxSize}, allocNumber : {0}, next : GarbagePtrs,
     prev : GarbagePtrs]

\* sizes asked of BasicAllocator and SafeAllocator: the size of such a
\* block is stored nowhere, so zero and one non-zero size cover the cases
OtherSizes == {0, 1}

\* blocks currently held through BasicAllocator or SafeAllocator
OtherLive == Cardinality(Live("basic") \cup Live("safe"))

XAllocCall ==
    /\ status = "running"
    /\ \E sz \in OtherSizes :
       \E r \in MallocResults(S, sz) :
          /\ sz = 0 \/ OtherLive < MaxOther
          /\ Apply(xalloc(S, sz, r), "xalloc", NULL, sz)

XFreeCall ==
    /\ status = "running"
    /\ \E ptr \in {NULL} \cup Live("safe") :
       \E hd \in (IF ptr = NULL THEN {NoRec} ELSE GarbageHeaders) :
       \E crash \in (IF ptr = NULL \/ hd # NoRec THEN {FALSE} ELSE BOOLEAN) :
          Apply(xfree(S, ptr, hd, crash), "xfree", ptr, 0)

XReallocCall ==
    /\ status = "running"
    /\ \E ptr \in {NULL} \cup Live("safe") : \E sz \in OtherSizes :
       \E r \in ReallocResults(S, ptr, sz) :
          /\ ptr # NULL \/ OtherLive < MaxOther
          /\ Apply(xrealloc(S, ptr, sz, r), "xrealloc", ptr, sz)

BasicAllocCall ==
    /\ status = "running"
    /\ \E sz \in OtherSizes : \E r \in MallocResults(S, sz) :
          /\ OtherLive < MaxOther
          /\ Apply(basicAlloc(S, sz, r), "malloc", NULL, sz)

BasicFreeCall ==
    /\ status = "running"
    /\ \E ptr \in {NULL} \cup Live("basic") :
          Apply(basicFree(S, ptr), "free", ptr, 0)

BasicReallocCall ==
    /\ status = "running"
    /\ \E ptr \in {NULL} \cup Live("basic") : \E sz \in OtherSizes :
       \E r \in ReallocResults(S, ptr, sz) :
          /\ ptr # NULL \/ OtherLive < MaxOther
          /\ Apply(basicRealloc(S, ptr, sz, r), "realloc", ptr, sz)

MixedDebugAllocCall == DebugAllocStep(MaxMixedAllocs)

MixedDebugReallocCall == DebugReallocStep(MaxMixedAllocs)

\* xstrdup over any of the three allocators
XStrdupCall ==
    /\ status = "running"
    /\ \E via \in {"basic", "safe", "debug"} : \E str \in StrArgs :
       \E r \in (IF str.null THEN {NULL}
                ELSE MallocResults(S, (Len(str.chars) + 1) % Modulus)) :
       \E crash \in (IF via = "basic" /\ r = NULL /\ ~str.null THEN BOOLEAN
                    ELSE {FALSE}) :
          /\ \/ str.null
             \/ via = "debug" /\ debugAllocCount < MaxMixedAllocs
             \/ via # "debug" /\ OtherLive < MaxOther
          /\ ApplyStrdup(xstrdup(S, via, str, r, crash), via, str)

\* a program that uses the three strategies side by side
Next ==
    \/ MixedDebugAllocCall \/ DebugFreeCall \/ MixedDebugReallocCall
    \/ XAllocCall \/ XFreeCall \/ XReallocCall
    \/ BasicAllocCall \/ BasicFreeCall \/ BasicReallocCall
    \/ DebugReportCall \/ XStrdupCall

Spec == Init /\ [][Next]_vars

\* ---- the live list, as debugReportLeaks walks it (h = dbgHead; h = h->next) ----
List == Walk(mem, dbgHead, NumAddr + 1)

ListSet == {List[i] : i \in 1..Len(List)}

RECURSIVE SumSizes(_, _)
SumSizes(m, seq) ==
    IF seq = <<>> THEN 0 ELSE m[Head(seq)].size + SumSizes(m, Tail(seq))

Moved == lastCall.op = "debugRealloc" /\ lastCall.ptr # NULL
         /\ lastCall.ret # NULL /\ lastCall.ret # lastCall.ptr

\* C1: after any sequence of debug allocate/free/resize calls on live
\* pointers, debugBytesAlive equals the sum of the size fields of exactly
\* the records currently in the list.
C1_LiveBytesIsSum == debugBytesAlive = SumSizes(mem, List)

\* a resize relocated a record, changed its size, and other records are live
C1_Witness ==
    /\ Moved
    /\ Len(List) >= 2
    /\ mem[lastCall.ret].size = lastCall.sz
    /\ debugBytesAlive > lastCall.sz

\* C2: the live list is a valid doubly-linked structure: head.prev is
\* empty, and r.next.prev = r and r.prev.next = r for every record r of the
\* list whose neighbour exists, also after a relocating resize.
C2_ListWellLinked ==
    /\ dbgHead # NULL => IsRec(mem, dbgHead) /\ mem[dbgHead].prev = NULL
    /\ \A r \in ListSet :
          /\ IsRec(mem, r)
          /\ mem[r].next # NULL =>
                IsRec(mem, mem[r].next) /\ mem[mem[r].next].prev = r
          /\ mem[r].prev # NULL =>
                IsRec(mem, mem[r].prev) /\ mem[mem[r].prev].next = r

\* a resize relocated a middle record (it has both neighbours)
C2_Witness ==
    /\ Moved
    /\ mem[lastCall.ret].prev # NULL
    /\ mem[lastCall.ret].next # NULL

\* C3: the records reachable from dbgHead are in one-to-one correspondence
\* with the live debug pointers: none missing, none stale, none twice.
C3_ListIsLiveSet ==
    /\ ListSet = Live("debug")
    /\ Len(List) = Cardinality(ListSet)

\* a relocating resize left its old address out of the list while two
\* records are live
C3_Witness ==
    /\ Moved
    /\ lastCall.ptr \notin ListSet
    /\ lastCall.ret \in ListSet
    /\ Cardinality(Live("debug")) >= 2

\* C4: sequence numbers are handed out strictly increasing and are never
\* reused, whatever frees and resizes are interleaved: the numbers issued
\* so far are strictly increasing, debugAllocCount is the last one issued,
\* and live records carry distinct issued numbers.
C4_SeqNumbersIncrease ==
    /\ \A i \in 1..Len(issued) : \A j \in 1..Len(issued) :
          i < j => issued[i] < issued[j]
    /\ Len(issued) > 0 => issued[Len(issued)] = debugAllocCount
    /\ \A a \in Live("debug") :
          \E i \in 1..Len(issued) : mem[a].allocNumber = issued[i]
    /\ \A a \in Live("debug") : \A b \in Live("debug") :
          a # b => mem[a].allocNumber # mem[b].allocNumber

\* an allocation made after a free: fewer live records than numbers issued
C4_Witness ==
    /\ lastCall.op = "debugAlloc"
    /\ lastCall.ret # NULL
    /\ Len(issued) >= 3
    /\ Cardinality(Live("debug")) < Len(issued)
    /\ mem[lastCall.ret].allocNumber = debugAllocCount

\* ---- claims about single calls ----
\* this step leaves the program in state s
Becomes(s) ==
    /\ dbgHead' = s.dbgHead
    /\ debugBytesAlive' = s.debugBytesAlive
    /\ debugAllocCount' = s.debugAllocCount
    /\ mem' = s.mem
    /\ owner' = s.owner
    /\ status' = s.status
    /\ issued' = s.issued
    /\ out' = s.out
    /\ req' = s.req

\* C5: SafeAllocator.free of a non-empty pointer from SafeAllocator only
\* releases that block: dbgHead, every header's links, debugBytesAlive and
\* debugAllocCount are unchanged.
C5_XFreeLeavesTracking ==
    [][(lastCall'.op = "xfree" /\ lastCall'.ptr # NULL
        /\ status' # "crashed") =>
          /\ UNCHANGED <<dbgHead, debugBytesAlive, debugAllocCount, mem>>
          /\ owner' = [owner EXCEPT ![lastCall'.ptr] = "free"]]_vars

\* C6 as stated: on every strategy allocate(0) returns empty and does not
\* call the system allocator.
C6_AllocZeroNoSysCall ==
    (lastCall.op \in {"malloc", "xalloc", "debugAlloc"} /\ lastCall.sz = 0)
        => (lastCall.ret = NULL /\ lastCall.sys = {})

\* C6 amended: SafeAllocator and DebugAllocator return empty for
\* allocate(0) without calling the system allocator and without
\* terminating; BasicAllocator's allocate is malloc itself, called for
\* every size.
C6_AllocZeroSafeDebug ==
    /\ (lastCall.op \in {"xalloc", "debugAlloc"} /\ lastCall.sz = 0)
          => (lastCall.ret = NULL /\ lastCall.sys = {}
              /\ status = "running")
    /\ lastCall.op = "malloc" => lastCall.sys = {"malloc"}

\* xalloc(0) returned empty in a program that also holds a debug block
C6_Witness ==
    /\ lastCall.op = "xalloc"
    /\ lastCall.sz = 0
    /\ lastCall.ret = NULL
    /\ lastCall.sys = {}
    /\ dbgHead # NULL

\* C7: on SafeAllocator and BasicAllocator, resize(p, 0) of a live p
\* returns normally with an empty result and releases exactly p, and
\* resize(empty, n) returns as allocate(n) does, for every n.
C7_ResizeEdgeCases ==
    [][/\ (lastCall'.op \in {"xrealloc", "realloc"} /\ lastCall'.ptr # NULL
           /\ lastCall'.sz = 0) =>
             /\ status' = "running"
             /\ lastCall'.ret = NULL
             /\ owner' = [owner EXCEPT ![lastCall'.ptr] = "free"]
             /\ UNCHANGED <<dbgHead, debugBytesAlive, debugAllocCount, mem>>
       /\ (lastCall'.op = "xrealloc" /\ lastCall'.ptr = NULL) =>
             \E r \in MallocResults(S, lastCall'.sz) :
                LET a == xalloc(S, lastCall'.sz, r)
                IN Becomes(a.s) /\ lastCall'.ret = a.ret
       /\ (lastCall'.op = "realloc" /\ lastCall'.ptr = NULL) =>
             \E r \in MallocResults(S, lastCall'.sz) :
                LET a == basicAlloc(S, lastCall'.sz, r)
                IN Becomes(a.s) /\ lastCall'.ret = a.ret]_vars

\* C8: debug resize(p, 0) of a live p is free(p) followed by returning
\* empty: same list, same debugBytesAlive, same debugAllocCount, and p is
\* no longer in the list.
C8_ResizeZeroIsFree ==
    [][(lastCall'.op = "debugRealloc" /\ lastCall'.ptr # NULL
        /\ lastCall'.sz = 0) =>
          /\ Becomes(debugFree(S, lastCall'.ptr))
          /\ lastCall'.ret = NULL
          /\ owner'[lastCall'.ptr] = "free"
          /\ debugBytesAlive' = debugBytesAlive - mem[lastCall'.ptr].size
          /\ debugAllocCount' = debugAllocCount]_vars

\* a resize to 0 released one record and left another in the list
C8_Witness ==
    /\ lastCall.op = "debugRealloc"
    /\ lastCall.ptr # NULL
    /\ lastCall.sz = 0
    /\ lastCall.ret = NULL
    /\ lastCall.ptr \notin ListSet
    /\ dbgHead # NULL

\* C9: debug resize(empty, n) is allocate(n) for every n, 0 included: each
\* outcome of one is an outcome of the other (same list, counters, new
\* record and result), and the result is empty exactly when n = 0.
C9_ResizeNullIsAlloc ==
    [][/\ (lastCall'.op = "debugRealloc" /\ lastCall'.ptr = NULL) =>
             /\ \E r \in MallocResults(S, (HdrSize + lastCall'.sz) % Modulus) :
                   LET a == debugAlloc(S, lastCall'.sz, r)
                   IN Becomes(a.s) /\ lastCall'.ret = a.ret
             /\ status' = "running" =>
                   (lastCall'.ret = NULL <=> lastCall'.sz = 0)
             /\ lastCall'.ret # NULL =>
                   /\ mem'[lastCall'.ret].allocNumber = debugAllocCount + 1
                   /\ mem'[lastCall'.ret].size = lastCall'.sz
                   /\ dbgHead' = lastCall'.ret
       /\ lastCall'.op = "debugAlloc" =>
             \E r \in ReallocResults(S, NULL,
                                     (HdrSize + lastCall'.sz) % Modulus) :
                LET a == debugRealloc(S, NULL, lastCall'.sz, r)
                IN Becomes(a.s) /\ lastCall'.ret = a.ret]_vars

\* resize(empty, n > 0) created the newest record, in front of an older one
C9_Witness ==
    /\ lastCall.op = "debugRealloc"
    /\ lastCall.ptr = NULL
    /\ lastCall.sz > 0
    /\ lastCall.ret # NULL
    /\ dbgHead = lastCall.ret
    /\ mem[lastCall.ret].allocNumber = debugAllocCount
    /\ Len(List) >= 2

\* C10: debug allocate(0) returns empty and changes nothing, so the next
\* non-zero allocate gets the number that follows the unchanged
\* debugAllocCount.
C10_AllocZeroNoEffect ==
    [][/\ (lastCall'.op = "debugAlloc" /\ lastCall'.sz = 0) =>
             /\ lastCall'.ret = NULL
             /\ UNCHANGED <<dbgHead, debugBytesAlive, debugAllocCount, mem,
                            owner, status, issued>>
       /\ (lastCall'.op = "debugAlloc" /\ lastCall'.ret # NULL) =>
             mem'[lastCall'.ret].allocNumber = debugAllocCount + 1]_vars

\* allocate(0) was called while records are live
C10_Witness ==
    /\ lastCall.op = "debugAlloc"
    /\ lastCall.sz = 0
    /\ lastCall.ret = NULL
    /\ Len(List) >= 2
    /\ debugBytesAlive > 0

\* C11: free(empty) is a no-op on BasicAllocator, SafeAllocator and
\* DebugAllocator: the call returns, writes nothing, and dbgHead, every
\* header, debugBytesAlive, debugAllocCount and every live block are as
\* before.
C11_FreeNullNoop ==
    [][(lastCall'.op \in {"free", "xfree", "debugFree"}
        /\ lastCall'.ptr = NULL) =>
          /\ status' = "running"
          /\ out' = <<>>
          /\ UNCHANGED <<dbgHead, debugBytesAlive, debugAllocCount, mem,
                         owner, issued>>]_vars

\* xfree(NULL) returned while a debug record is live
C11_Witness ==
    /\ lastCall.op = "xfree"
    /\ lastCall.ptr = NULL
    /\ status = "running"
    /\ dbgHead # NULL
    /\ debugBytesAlive > 0

\* the system allocator was asked for memory and returned NULL
AllocFailed ==
    /\ lastCall.op \in {"xalloc", "xrealloc", "debugAlloc", "debugRealloc"}
    /\ lastCall.sys \in {{"malloc"}, {"realloc"}}
    /\ lastCall.sz > 0
    /\ lastCall.ret = NULL

\* C12: when malloc/realloc fails inside a SafeAllocator or DebugAllocator
\* allocate or resize, the call does not return: the process is terminated
\* after the one line "panic in <file>:<line>: out of memory", and dbgHead,
\* every header, debugBytesAlive and debugAllocCount are what they were
\* before the call.
C12_FailureIsFatalAndClean ==
    [][/\ AllocFailed' =>
             /\ status' = "panicked"
             /\ out' = <<"panic in mem.c:37: out of memory">>
       /\ status' = "panicked" =>
             UNCHANGED <<dbgHead, debugBytesAlive, debugAllocCount, mem,
                         issued>>]_vars

\* a resize of the live debug block failed; the block is still the list
C12_Witness ==
    /\ lastCall.op = "debugRealloc"
    /\ lastCall.ptr # NULL
    /\ lastCall.sz > 0
    /\ lastCall.ret = NULL
    /\ status = "panicked"
    /\ dbgHead = lastCall.ptr
    /\ owner[lastCall.ptr] = "debug"

NoLeaksLine == "No memory leaks detected."

\* C13: once every outstanding allocation is freed, dbgHead is empty,
\* debugBytesAlive is 0 and the leak report is the single line
\* "No memory leaks detected."; while an allocation is outstanding the
\* report does not contain that line.
C13_NoLeaksIffAllFreed ==
    LET report == debugReportLeaks(S).s.out
    IN /\ Live("debug") = {} =>
             /\ dbgHead = NULL
             /\ debugBytesAlive = 0
             /\ report = <<NoLeaksLine>>
       /\ Live("debug") # {} =>
             \A i \in 1..Len(report) : report[i] # NoLeaksLine
       /\ lastCall.op = "debugReportLeaks" => out = report

\* the report ran after allocations were made and all freed
C13_Witness ==
    /\ lastCall.op = "debugReportLeaks"
    /\ out = <<NoLeaksLine>>
    /\ debugAllocCount >= 2
    /\ Live("debug") = {}

\* C14: the leak report changes nothing (dbgHead, every header,
\* debugBytesAlive, debugAllocCount), and its loop ends at a NULL next after
\* one line per live record, each record once.
C14_ReportReadOnly ==
    [][lastCall'.op = "debugReportLeaks" =>
          LET w == Walk(mem, dbgHead, NumAddr + 1)
          IN /\ UNCHANGED <<dbgHead, debugBytesAlive, debugAllocCount, mem,
                            owner, status, issued>>
             /\ {w[i] : i \in 1..Len(w)} = Live("debug")
             /\ Len(w) = Cardinality(Live("debug"))
             /\ Len(w) > 0 =>
                   /\ mem[w[Len(w)]].next = NULL
                   /\ Len(out') = Len(w) + 2
                   /\ \A i \in 1..Len(w) :
                         out'[i + 1] = LeakLine(mem[w[i]].allocNumber,
                                                mem[w[i]].size)]_vars

\* the report listed two or more live records
C14_Witness ==
    /\ lastCall.op = "debugReportLeaks"
    /\ Len(List) >= 2
    /\ Len(out) = Len(List) + 2
    /\ out[1] = "MEMORY LEAKS DETECTED:"

\* C15: xstrdup(DebugAllocator, s) raises debugBytesAlive by strlen(s) + 1,
\* and debugFree of its result brings debugBytesAlive, dbgHead and every
\* header back to what they were before the duplication; debugAllocCount
\* stays one higher.
C15_StrdupFreeRoundTrip ==
    [][(lastCall'.op = "xstrdup" /\ lastCall'.ret # NULL) =>
          /\ debugBytesAlive' = debugBytesAlive + lastCall'.sz + 1
          /\ mem'[lastCall'.ret].size = Len(lastCall'.str.chars) + 1
          /\ LET f == debugFree(S', lastCall'.ret)
             IN /\ f.debugBytesAlive = debugBytesAlive
                /\ f.dbgHead = dbgHead
                /\ f.mem = mem
                /\ f.owner = owner
                /\ f.debugAllocCount = debugAllocCount + 1]_vars

\* a string of MaxStrLen characters was duplicated next to an older record
C15_Witness ==
    /\ lastCall.op = "xstrdup"
    /\ lastCall.ret # NULL
    /\ Len(lastCall.str.chars) = MaxStrLen
    /\ mem[lastCall.ret].size = MaxStrLen + 1
    /\ Len(List) >= 2

\* ---- the end-to-end scenario of the specification ----
\* p1 = allocate(10); p2 = allocate(20); free(p1); p2 = resize(p2, 5);
\* leak report.  The caller's locals (how far it has come, p1 and p2)
\* travel with the record of the last call.
ApplyE2E(res, op, ptr, sz, locals) ==
    /\ dbgHead' = res.s.dbgHead
    /\ debugBytesAlive' = res.s.debugBytesAlive
    /\ debugAllocCount' = res.s.debugAllocCount
    /\ mem' = res.s.mem
    /\ owner' = res.s.owner
    /\ status' = res.s.status
    /\ issued' = res.s.issued
    /\ out' = res.s.out
    /\ req' = res.s.req
    /\ lastCall' = [op |-> op, ptr |-> ptr, sz |-> sz,
                    ret |-> res.ret, sys |-> res.sys, locals |-> locals]

E2EStep(k) == lastCall.op # "none" /\ lastCall.locals.step = k

E2EAllocFirst ==
    /\ status = "running"
    /\ lastCall.op = "none"
    /\ \E r \in MallocResults(S, (HdrSize + 10) % Modulus) :
          LET res == debugAlloc(S, 10, r) IN
          ApplyE2E(res, "debugAlloc", NULL, 10,
                   [step |-> 1, p1 |-> res.ret, p2 |-> NULL])

E2EAllocSecond ==
    /\ status = "running"
    /\ E2EStep(1)
    /\ \E r \in MallocResults(S, (HdrSize + 20) % Modulus) :
          LET res == debugAlloc(S, 20, r) IN
          ApplyE2E(res, "debugAlloc", NULL, 20,
                   [lastCall.locals EXCEPT !.step = 2, !.p2 = res.ret])

E2EFreeFirst ==
    /\ status = "running"
    /\ E2EStep(2)
    /\ LET p == lastCall.locals.p1 IN
       ApplyE2E(Res(debugFree(S, p), NULL, {"free"}), "debugFree", p, 0,
                [lastCall.locals EXCEPT !.step = 3])

E2EResizeSecond ==
    /\ status = "running"
    /\ E2EStep(3)
    /\ LET p == lastCall.locals.p2 IN
       \E r \in ReallocResults(S, p, (HdrSize + 5) % Modulus) :
          LET res == debugRealloc(S, p, 5, r) IN
          ApplyE2E(res, "debugRealloc", p, 5,
                   [lastCall.locals EXCEPT !.step = 4, !.p2 = res.ret])

E2EReport ==
    /\ status = "running"
    /\ E2EStep(4)
    /\ ApplyE2E(debugReportLeaks(S), "debugReportLeaks", NULL, 0,
                [lastCall.locals EXCEPT !.step = 5])

NextE2E ==
    \/ E2EAllocFirst
    \/ E2EAllocSecond
    \/ E2EFreeFirst
    \/ E2EResizeSecond
    \/ E2EReport

SpecE2E == Init /\ [][NextE2E]_vars

\* C16: in the end-to-end scenario allocate(10) gets number 1 and
\* debugBytesAlive = 10; allocate(20) gets number 2, debugBytesAlive = 30
\* and is the head; free(first) leaves debugBytesAlive = 20 and only the
\* second record; resize(second, 5) leaves debugBytesAlive = 5, moved or
\* not; the report is the header, the one line
\* "Leak: allocation 2 leaked 5 bytes" and "Total leaked: 5 bytes".
C16_EndToEnd ==
    (status = "running" /\ lastCall.op # "none") =>
       LET l == lastCall.locals IN
       /\ l.step = 1 =>
             /\ mem[l.p1].allocNumber = 1
             /\ debugBytesAlive = 10
       /\ l.step = 2 =>
             /\ mem[l.p2].allocNumber = 2
             /\ debugBytesAlive = 30
             /\ dbgHead = l.p2
       /\ l.step = 3 =>
             /\ debugBytesAlive = 20
             /\ List = <<l.p2>>
       /\ l.step = 4 =>
             /\ debugBytesAlive = 5
             /\ List = <<l.p2>>
             /\ mem[l.p2].allocNumber = 2
       /\ l.step = 5 =>
             out = <<"MEMORY LEAKS DETECTED:",
                     "Leak: allocation 2 leaked 5 bytes",
                     "Total leaked: 5 bytes">>

\* C17: the list from dbgHead to the tail is in strictly decreasing
\* allocNumber order (newest first) in every reachable state, after frees
\* and after resizes that move a block too, and the leak report prints
\* its record lines in that order.
C17_ListNewestFirst ==
    /\ \A i \in 1..Len(List) : \A j \in 1..Len(List) :
          i < j => mem[List[i]].allocNumber > mem[List[j]].allocNumber
    /\ (lastCall.op = "debugReportLeaks" /\ List # <<>>) =>
          /\ Len(out) = Len(List) + 2
          /\ \A i \in 1..Len(List) :
                out[i + 1] = LeakLine(mem[List[i]].allocNumber,
                                      mem[List[i]].size)

\* a block that is not the newest was moved by a resize after an older
\* or middle record had been freed
C17_Witness ==
    /\ Moved
    /\ Len(List) = 2
    /\ List[2] = lastCall.ret
    /\ debugAllocCount = 3

\* C18: a debug resize(p, n) of a live p with n > 0 that succeeds changes
\* only the record's size (to n), its address if it moved, and
\* debugBytesAlive (by n - oldSize, as integers): the record keeps its
\* allocNumber and its place in the list, the other records keep their
\* address, size and allocNumber, the list keeps its length and
\* debugAllocCount stays.
C18_ResizeFrame ==
    [][(lastCall'.op = "debugRealloc" /\ lastCall'.ptr # NULL
        /\ lastCall'.sz > 0 /\ lastCall'.ret # NULL) =>
          LET p == lastCall'.ptr
              q == lastCall'.ret
              n == lastCall'.sz
              before == List
              after == List'
          IN /\ Len(after) = Len(before)
             /\ \A i \in 1..Len(before) :
                   IF before[i] = p
                   THEN /\ after[i] = q
                        /\ mem'[q].size = n
                        /\ mem'[q].allocNumber = mem[p].allocNumber
                   ELSE /\ after[i] = before[i]
                        /\ mem'[after[i]].size = mem[before[i]].size
                        /\ mem'[after[i]].allocNumber =
                              mem[before[i]].allocNumber
             /\ \E i \in 1..Len(before) : before[i] = p
             /\ debugBytesAlive' = debugBytesAlive - mem[p].size + n
             /\ debugAllocCount' = debugAllocCount]_vars

\* the middle one of three records was resized in place to a larger size
C18_Witness ==
    /\ lastCall.op = "debugRealloc"
    /\ lastCall.ptr # NULL
    /\ lastCall.sz = MaxSize
    /\ lastCall.ret = lastCall.ptr
    /\ Len(List) = 3
    /\ List[2] = lastCall.ret
    /\ debugBytesAlive = MaxSize + 2

\* C19: xstrdup never stores through a NULL pointer: when the allocator
\* handed to it returns NULL (BasicAllocator on a failed malloc) it
\* returns NULL and the program runs on, nothing copied; for a NULL
\* string it returns NULL without calling the allocator.
C19_StrdupNoNullWrite ==
    [][lastCall'.op = "xstrdup" =>
          /\ lastCall'.str.null =>
                /\ lastCall'.ret = NULL
                /\ lastCall'.sys = {}
                /\ Becomes(S)
          /\ (~lastCall'.str.null /\ lastCall'.via = "basic"
              /\ lastCall'.ret = NULL) =>
                /\ status' = "running"
                /\ mem' = mem
                /\ owner' = owner]_vars

\* ---- debug calls with sizes near the top of size_t ----
\* the small sizes, the size whose sum with the header is exactly 2^w,
\* and SIZE_MAX
HugeSizes == Sizes \cup {Modulus - HdrSize, Modulus - 1}

HugeAllocCall ==
    /\ status = "running"
    /\ \E sz \in HugeSizes :
       \E r \in MallocResults(S, (HdrSize + sz) % Modulus) :
          /\ sz = 0 \/ debugAllocCount < MaxMixedAllocs + 1
          /\ Apply(debugAlloc(S, sz, r), "debugAlloc", NULL, sz)

HugeReallocCall ==
    /\ status = "running"
    /\ \E ptr \in {NULL} \cup Live("debug") : \E sz \in HugeSizes :
       \E r \in (IF sz = 0 THEN {NULL}
                ELSE ReallocResults(S, ptr, (HdrSize + sz) % Modulus)) :
          /\ ptr # NULL \/ sz = 0 \/ debugAllocCount < MaxMixedAllocs + 1
          /\ Apply(debugRealloc(S, ptr, sz, r), "debugRealloc", ptr, sz)

NextHuge == HugeAllocCall \/ HugeReallocCall \/ DebugFreeCall

SpecHuge == Init /\ [][NextHuge]_vars

\* C20: for every size > 0 given to debugAlloc or debugRealloc the byte
\* count asked of malloc/realloc is sizeof(DebugHeader) + size, not that
\* sum reduced modulo 2^w, so the block holds the header and the payload
\* and the recorded size is at most the payload obtained.
C20_RequestNoWraparound ==
    (/\ lastCall.op \in {"debugAlloc", "debugRealloc"}
     /\ lastCall.sz > 0
     /\ lastCall.sys \cap {"malloc", "realloc"} # {}) =>
          /\ req = HdrSize + lastCall.sz
          /\ lastCall.ret # NULL =>
                /\ status = "running"
                /\ mem[lastCall.ret].size <= req - HdrSize

====
